---------------------------- MODULE Spec2Model ----------------------------
(***************************************************************************)
(* A model of the dispatch core of py-jsonapi: the type registry of        *)
(* jsonapi.api.API (add_type, get_encoder, get_includer), its routing      *)
(* (add_handler, add_url_rule, _get_handler, handle_request), its          *)
(* identifier normalization and debug property, and the include paths of   *)
(* jsonapi.includer.Includer (path_exists, paths_exist, fetch_path).       *)
(*                                                                         *)
(* Python objects are records with a "kind" field; dictionaries are        *)
(* functions whose domain is the set of keys present; dictionary keys      *)
(* (typenames, classes, resource instances) are strings.  A call is an     *)
(* action; what it returned or raised is left in the variable ret.         *)
(***************************************************************************)
EXTENDS Naturals, Sequences, FiniteSets, TLC

VARIABLES
    _encoder,                     \* API._encoder: typename -> encoder
    _resource_class_to_encoder,   \* API._resource_class_to_encoder
    _includer,                    \* API._includer: typename -> includer
    _resource_class_to_includer,  \* API._resource_class_to_includer
    encoder_api,                  \* the encoders init_api(self) was called on
    includer_api,                 \* the includers whose __api is this API
    _relationships,               \* Includer._relationships, of each includer
    frames,                       \* the path_exists calls that have not returned
    add_type_calls,               \* history: the add_type calls that returned
    _uri,                         \* API._uri: the root uri, as a string
    _debug,                       \* API._debug
    _routes,                      \* API._routes: url rule -> handler, in order
    _handler,                     \* API._handler: endpoint key -> handler
    add_url_rule_calls,           \* history: the add_url_rule calls that returned
    requests,                     \* the Request objects and their dispatch
    ret                           \* the last call: its arguments and outcome

registry_vars == <<_encoder, _resource_class_to_encoder, _includer,
                   _resource_class_to_includer, encoder_api, includer_api,
                   add_type_calls>>

includer_vars == <<_relationships, frames>>

routing_vars == <<_uri, _debug, _routes, _handler, add_url_rule_calls>>

vars == <<registry_vars, includer_vars, routing_vars, requests, ret>>

-----------------------------------------------------------------------------
(* Bounds of the model. *)

\* The number of add_type calls that complete in one behaviour.
MaxAddType == 2

\* The number of add_url_rule calls that complete in one behaviour.
MaxAddUrlRule == 3

\* The number of keys of the handler table.
MaxHandlers == 1

\* The number of path segments a request has after its prefix.
MaxSegments == 3

\* The number of relationships the includers have, all together.
MaxRelationships == 3

\* The number of relationship names of an include path.
MaxPath == 2

\* The number of resources given to fetch_path.
MaxResources == 2

\* The depth of calls at which the interpreter raises RecursionError.
MaxRecursion == 3

-----------------------------------------------------------------------------
(* Python values. *)

\* The value None.
None == [kind |-> "None"]

\* A request that was not made yet.
NoRequest == [pc |-> "none"]

\* The Request objects of a behaviour.
Requests == {"r1"}

\* The API is being set up: no request was made yet.  Types, handlers and
\* url rules are registered before the first request is dispatched.
Setup == \A r \in DOMAIN requests : requests[r].pc = "none"

\* None where it stands for a typename or a resource class (a dictionary key).
NoneKey == "None"

\* The sentinel "no default was given" of get_encoder and get_includer.
ARG_DEFAULT == [kind |-> "ARG_DEFAULT"]

Typenames == {"A", "B"}

ResourceClasses == {"C1", "C2"}

\* A class nothing is registered for; D1 is a subclass of C1.
SubClasses == {"D1"}

\* Resource objects, and the class each was created from.
Instances == {"o1", "o2", "o3"}

\* Encoder objects: the attributes add_type reads, and an identity.  The
\* typename A has an encoder for either class, the typename B one for the
\* class C1, there are encoders without a typename or without a class, and
\* a second object with the attributes of the encoder of ("A", "C1").
EncoderIds == {1, 2}

Encoders ==
    {e \in [kind : {"Encoder"}, id : EncoderIds,
            typename : Typenames \cup {NoneKey},
            resource_class : ResourceClasses \cup {NoneKey}] :
        /\ e.id = 2 => (e.typename = "A" /\ e.resource_class = "C1")
        /\ ~(e.typename = "B" /\ e.resource_class = "C2")}

\* Includer objects, one per name.
IncluderIds == {"A", "B"}

Includers == [kind : {"Includer"}, id : IncluderIds]

\* What a caller passes as default: nothing, None, or an object of its own.
Defaults == {ARG_DEFAULT, None, [kind |-> "Fallback"]}

\* What a caller passes as o: a typename, a class or a resource object.
LookupKeys == Typenames \cup {"Z"} \cup ResourceClasses \cup SubClasses \cup Instances

\* type(o): the runtime class of o.
TypeOf(o) ==
    CASE o = "o1" -> "C1"
      [] o = "o2" -> "C2"
      [] o = "o3" -> "D1"
      [] o \in ResourceClasses \cup SubClasses -> "type"
      [] o = NoneKey -> "NoneType"
      [] OTHER -> "str"

\* bool(v) of an object: None is false, encoders and includers define
\* neither __bool__ nor __len__ and are true.
Truthy(v) == v # None

\* d.get(k): None when the key is absent.
DictGet(d, k) == IF k \in DOMAIN d THEN d[k] ELSE None

\* d.setdefault(k, v): an entry already there is kept.
DictSetDefault(d, k, v) ==
    [x \in DOMAIN d \cup {k} |-> IF x \in DOMAIN d THEN d[x] ELSE v]

\* d[k] = v
DictSet(d, k, v) == [x \in DOMAIN d \cup {k} |-> IF x = k THEN v ELSE d[x]]

\* A list object.
List(items) == [kind |-> "list", items |-> items]

\* a or b
Or(a, b) == IF Truthy(a) THEN a ELSE b

Return(v) == [kind |-> "return", value |-> v]

Raise(e) == [kind |-> "raise", exc |-> e]

-----------------------------------------------------------------------------
(* The type registry: API.get_encoder, API.get_includer, API.add_type. *)

\* Lookup without the last alternative, the class of an instance.
Lookup_without_type(by_typename, by_class, o, default) ==
    LET found == Or(DictGet(by_typename, o), DictGet(by_class, o))
    IN  IF found # None THEN Return(found)
        ELSE IF default # ARG_DEFAULT THEN Return(default)
        ELSE Raise("KeyError")

\* Lookup with None, not the sentinel, standing for "no default".
Lookup_default_none(by_typename, by_class, o, default) ==
    LET found == Or(Or(DictGet(by_typename, o), DictGet(by_class, o)),
                    DictGet(by_class, TypeOf(o)))
    IN  IF found # None THEN Return(found)
        ELSE IF default # None /\ default # ARG_DEFAULT THEN Return(default)
        ELSE Raise("KeyError")

\* The lookup shared by get_encoder and get_includer: by the key itself in
\* the typename map, then in the class map, then by type(o) in the class map.
Lookup(by_typename, by_class, o, default) ==
    LET found == Or(Or(DictGet(by_typename, o), DictGet(by_class, o)),
                    DictGet(by_class, TypeOf(o)))
    IN  IF found # None THEN Return(found)
        ELSE IF default # ARG_DEFAULT THEN Return(default)
        ELSE Raise("KeyError")

get_encoder_result(o, default) ==
    Lookup(_encoder, _resource_class_to_encoder, o, default)

get_includer_result(o, default) ==
    Lookup(_includer, _resource_class_to_includer, o, default)

get_encoder(o, default) ==
    /\ ret' = [op |-> "get_encoder", o |-> o, default |-> default,
               out |-> get_encoder_result(o, default)]
    /\ UNCHANGED <<registry_vars, includer_vars, routing_vars, requests>>

get_includer(o, default) ==
    /\ ret' = [op |-> "get_includer", o |-> o, default |-> default,
               out |-> get_includer_result(o, default)]
    /\ UNCHANGED <<registry_vars, includer_vars, routing_vars, requests>>

\* add_type(encoder, includer): the two warnings read self.typename, which
\* the API does not have, so an encoder without a resource class or without
\* a typename ends the call with AttributeError before anything is stored.
add_type(encoder, includer) ==
    LET resource_class == encoder.resource_class
        typename == encoder.typename
    IN  /\ Setup
        /\ UNCHANGED <<includer_vars, routing_vars, requests>>
        /\ IF resource_class = NoneKey \/ typename = NoneKey
           THEN /\ ret' = [op |-> "add_type", encoder |-> encoder,
                           includer |-> includer,
                           out |-> Raise("AttributeError")]
                /\ UNCHANGED registry_vars
           ELSE /\ Len(add_type_calls) < MaxAddType
                /\ encoder_api' = encoder_api \cup {encoder}
                /\ _encoder' = DictSet(_encoder, typename, encoder)
                /\ _resource_class_to_encoder' =
                       IF resource_class # NoneKey
                       THEN DictSet(_resource_class_to_encoder, resource_class, encoder)
                       ELSE _resource_class_to_encoder
                /\ IF includer # None
                   THEN /\ includer_api' = includer_api \cup {includer}
                        /\ _includer' = DictSet(_includer, typename, includer)
                        /\ _resource_class_to_includer' =
                               IF resource_class # NoneKey
                               THEN DictSet(_resource_class_to_includer,
                                            resource_class, includer)
                               ELSE _resource_class_to_includer
                   ELSE UNCHANGED <<includer_api, _includer,
                                    _resource_class_to_includer>>
                /\ add_type_calls' = Append(add_type_calls,
                       [encoder |-> encoder, includer |-> includer])
                /\ ret' = [op |-> "add_type", encoder |-> encoder,
                           includer |-> includer, out |-> Return(None)]

-----------------------------------------------------------------------------
(* Identifiers: API.ensure_identifier_object and API.ensure_identifier. *)

\* The values found in tuples and documents: strings and integers.
StrValue(s) == [kind |-> "str", s |-> s]

IntValue(n) == [kind |-> "int", n |-> n]

\* str(v)
Str(v) ==
    IF v.kind = "str" THEN v.s
    ELSE CASE v.n = 7 -> "7"
           [] v.n = 42 -> "42"

Tuple(items) == [kind |-> "tuple", items |-> items]

Dict(entries) == [kind |-> "dict", entries |-> entries]

\* A resource object.
Resource(o) == [kind |-> "resource", o |-> o]

\* What is given as obj: None, a tuple of two values (or of three), a
\* document with the keys type and id, a document without id, a resource.
IdentifierInputs ==
    {None,
     Tuple(<<StrValue("A"), IntValue(7)>>),
     Tuple(<<StrValue("A"), StrValue("7")>>),
     Tuple(<<StrValue("A"), IntValue(42), StrValue("x")>>),
     Dict([type |-> StrValue("A"), id |-> IntValue(7),
           extra |-> StrValue("ignored")]),
     Dict([type |-> StrValue("A")])}
    \cup {Resource(o) : o \in Instances}

\* obj as the key of a lookup.
AsKey(obj) == IF obj = None THEN NoneKey ELSE obj.o

\* encoder.id(resource): the id of the resource, a string.
encoder_id(encoder, o) ==
    CASE o = "o1" -> "1"
      [] o = "o2" -> "2"
      [] OTHER -> "3"

\* The identifier object {"type": ..., "id": ...}
IdentifierObject(type, id) == Dict([type |-> type, id |-> id])

\* utilities.jsonapi_id_tuple(type, id)
jsonapi_id_tuple(type, id) == [kind |-> "jsonapi_id_tuple", type |-> type, id |-> id]

\* The outcome of a call together with the number of get_encoder calls made.
Outcome(out, lookups) == [out |-> out, lookups |-> lookups]

\* ensure_identifier_object(obj)
ensure_identifier_object_result(obj) ==
    IF obj = None THEN Outcome(Return(None), 0)
    ELSE IF obj.kind = "tuple"
    THEN Outcome(Return(IdentifierObject(Str(obj.items[1]), Str(obj.items[2]))), 0)
    ELSE IF obj.kind = "dict"
    THEN IF {"type", "id"} \subseteq DOMAIN obj.entries
         THEN Outcome(Return(IdentifierObject(Str(obj.entries.type),
                                               Str(obj.entries.id))), 0)
         ELSE Outcome(Raise("KeyError"), 0)
    ELSE LET found == get_encoder_result(AsKey(obj), ARG_DEFAULT)
         IN  IF found.kind = "raise" THEN Outcome(found, 1)
             ELSE Outcome(Return(IdentifierObject(found.value.typename,
                              encoder_id(found.value, AsKey(obj)))), 1)

\* ensure_identifier(obj): there is no branch for None, which is looked up
\* as a resource would be.
ensure_identifier_result(obj) ==
    IF obj # None /\ obj.kind = "tuple"
    THEN IF Len(obj.items) # 2 THEN Outcome(Raise("AssertionError"), 0)
         ELSE Outcome(Return(jsonapi_id_tuple(Str(obj.items[1]),
                                              Str(obj.items[2]))), 0)
    ELSE IF obj # None /\ obj.kind = "dict"
    THEN IF {"type", "id"} \subseteq DOMAIN obj.entries
         THEN Outcome(Return(jsonapi_id_tuple(Str(obj.entries.type),
                                              Str(obj.entries.id))), 0)
         ELSE Outcome(Raise("KeyError"), 0)
    ELSE LET found == get_encoder_result(AsKey(obj), ARG_DEFAULT)
         IN  IF found.kind = "raise" THEN Outcome(found, 1)
             ELSE Outcome(Return(jsonapi_id_tuple(found.value.typename,
                              encoder_id(found.value, AsKey(obj)))), 1)

ensure_identifier_object(obj) ==
    /\ ret' = [op |-> "ensure_identifier_object", obj |-> obj,
               out |-> ensure_identifier_object_result(obj).out,
               lookups |-> ensure_identifier_object_result(obj).lookups]
    /\ UNCHANGED <<registry_vars, includer_vars, routing_vars, requests>>

ensure_identifier(obj) ==
    /\ ret' = [op |-> "ensure_identifier", obj |-> obj,
               out |-> ensure_identifier_result(obj).out,
               lookups |-> ensure_identifier_result(obj).lookups]
    /\ UNCHANGED <<registry_vars, includer_vars, routing_vars, requests>>

-----------------------------------------------------------------------------
(* Includer: its relationships, path_exists and paths_exist. *)

\* The names of relationships.
RelNames == {"x", "y"}

\* remote_types of a relationship: not known, or a list of typenames; "Z" is
\* a typename nothing is registered for.
RemoteTypes == {None, List(<<"A", "B">>), List(<<"Z">>)}

\* The descriptors, as they are declared: the name is left to the key.
Relationships ==
    [kind : {"ToManyRelationship"}, name : {None}, mapped_key : {None},
     key : {None}, remote_types : RemoteTypes]

\* Includer.__init__ of every includer: no relationship yet.
Includer_init == _relationships = [i \in IncluderIds |-> <<>>]

NumRelationships ==
    LET RECURSIVE Sum(_)
        Sum(ids) == IF ids = {} THEN 0
                    ELSE LET i == CHOOSE i \in ids : TRUE
                         IN  Cardinality(DOMAIN _relationships[i]) + Sum(ids \ {i})
    IN  Sum(IncluderIds)

\* includer.add_includer_method(key, method)
add_includer_method(includer, key, method) ==
    LET name == Or(method.name, key)
        named == [method EXCEPT !.name = name,
                                !.mapped_key = Or(method.mapped_key, key),
                                !.key = key]
    IN  /\ IF name \in DOMAIN _relationships[includer.id] THEN TRUE
           ELSE NumRelationships < MaxRelationships
        /\ _relationships' = [_relationships EXCEPT ![includer.id] =
                                  DictSet(@, name, named)]
        /\ ret' = [op |-> "add_includer_method", out |-> Return(None)]
        /\ UNCHANGED <<registry_vars, frames, routing_vars, requests>>

\* self.__api.get_includer(remote_type), of an includer whose __api may
\* still be None.
remote_includer(includer, remote_type) ==
    IF includer \notin includer_api THEN Raise("AttributeError")
    ELSE get_includer_result(remote_type, ARG_DEFAULT)

RECURSIVE path_exists_in(_, _, _)

\* The loop over the remote types, leaving at the first one whose includer
\* has the rest of the path.
for_remote_types_any(rels, includer, remote_types, path) ==
    LET RECURSIVE Loop(_)
        Loop(n) ==
            IF n > Len(remote_types) THEN Return(Len(remote_types) = 0)
            ELSE LET found == remote_includer(includer, remote_types[n])
                 IN  IF found.kind = "raise" THEN found
                     ELSE LET sub == path_exists_in(rels, found.value, path)
                          IN  IF sub.kind = "raise" THEN sub
                              ELSE IF sub.value THEN Return(TRUE)
                              ELSE Loop(n + 1)
    IN  Loop(1)

\* for remote_type in relationship.remote_types: the includer of each remote
\* type is looked up and asked for the rest of the path, in the order of the
\* list; the first False ends the loop, and so does an error.
for_remote_types(rels, includer, remote_types, path) ==
    LET RECURSIVE Loop(_)
        Loop(n) ==
            IF n > Len(remote_types) THEN Return(TRUE)
            ELSE LET found == remote_includer(includer, remote_types[n])
                 IN  IF found.kind = "raise" THEN found
                     ELSE LET sub == path_exists_in(rels, found.value, path)
                          IN  IF sub.kind = "raise" THEN sub
                              ELSE IF ~sub.value THEN Return(FALSE)
                              ELSE Loop(n + 1)
    IN  Loop(1)

\* includer.path_exists(path), the relationships of the includers being rels
path_exists_in(rels, includer, path) ==
    IF path = <<>> THEN Return(TRUE)
    ELSE LET name == Head(path)
             relationship == DictGet(rels[includer.id], name)
         IN  IF relationship = None THEN Return(FALSE)
             ELSE IF relationship.remote_types = None THEN Return(TRUE)
             ELSE for_remote_types(rels, includer,
                                   relationship.remote_types.items, Tail(path))

path_exists_result(includer, path) ==
    path_exists_in(_relationships, includer, path)

\* all(self.path_exists(path) for path in paths): the paths are checked in
\* order, up to the first that does not exist.
paths_exist_result(includer, paths) ==
    LET RECURSIVE All(_)
        All(n) ==
            IF n > Len(paths) THEN Return(TRUE)
            ELSE LET one == path_exists_result(includer, paths[n])
                 IN  IF one.kind = "raise" THEN one
                     ELSE IF ~one.value THEN Return(FALSE)
                     ELSE All(n + 1)
    IN  All(1)

path_exists(includer, path) ==
    /\ ret' = [op |-> "path_exists", includer |-> includer, path |-> path,
               out |-> path_exists_result(includer, path)]
    /\ UNCHANGED <<registry_vars, includer_vars, routing_vars, requests>>

paths_exist(includer, paths) ==
    /\ ret' = [op |-> "paths_exist", includer |-> includer, paths |-> paths,
               out |-> paths_exist_result(includer, paths)]
    /\ UNCHANGED <<registry_vars, includer_vars, routing_vars, requests>>

-----------------------------------------------------------------------------
(* Includer.path_exists, call by call: frames is the stack of the calls     *)
(* that have not returned, the outermost first.  A frame holds the includer *)
(* and the path of the call, the place n in remote_types of the remote type *)
(* being checked, and where the call stands: "enter" when it begins, "wait" *)
(* while the call it made runs, "true" or "false" once that call returned.  *)

Frame(includer, path) ==
    [includer |-> includer, path |-> path, n |-> 0, state |-> "enter"]

\* The path is passed on whole.
Rest_whole(path) == path

\* name, *path = path: what is left of the path after its first name.
Rest(path) == Tail(path)

\* includer.path_exists(path) is called from outside.
call_path_exists(includer, path) ==
    /\ frames = <<>>
    /\ frames' = <<Frame(includer, path)>>
    /\ ret' = [op |-> "call_path_exists", includer |-> includer, path |-> path]
    /\ UNCHANGED <<registry_vars, _relationships, routing_vars, requests>>

\* The call on top of the stack runs up to its next call or to its end.
path_exists_step ==
    /\ frames # <<>>
    /\ LET top == frames[Len(frames)]
           relationship == DictGet(_relationships[top.includer.id], Head(top.path))
           \* The outermost call ends.
           Done(out) ==
               /\ frames' = <<>>
               /\ ret' = [op |-> "path_exists", includer |-> frames[1].includer,
                          path |-> frames[1].path, out |-> out]
           \* return b
           ReturnBool(b) ==
               IF Len(frames) = 1 THEN Done(Return(b))
               ELSE /\ frames' = SubSeq(frames, 1, Len(frames) - 2) \o
                          <<[frames[Len(frames) - 1] EXCEPT
                                !.state = IF b THEN "true" ELSE "false"]>>
                    /\ UNCHANGED ret
           \* The loop over remote_types, at the place n.
           Loop(n) ==
               IF n > Len(relationship.remote_types.items) THEN ReturnBool(TRUE)
               ELSE LET found == remote_includer(top.includer,
                                     relationship.remote_types.items[n])
                    IN  IF found.kind = "raise" THEN Done(found)
                        ELSE /\ frames' = SubSeq(frames, 1, Len(frames) - 1) \o
                                   <<[top EXCEPT !.n = n, !.state = "wait"],
                                     Frame(found.value, Rest(top.path))>>
                             /\ UNCHANGED ret
       IN  CASE top.state = "enter" ->
                    IF top.path = <<>> THEN ReturnBool(TRUE)
                    ELSE IF relationship = None THEN ReturnBool(FALSE)
                    ELSE IF relationship.remote_types = None THEN ReturnBool(TRUE)
                    ELSE Loop(1)
             [] top.state = "false" -> ReturnBool(FALSE)
             [] top.state = "true" -> Loop(top.n + 1)
    /\ UNCHANGED <<registry_vars, _relationships, routing_vars, requests>>

-----------------------------------------------------------------------------
(* Includer.fetch_path: the relatives of some resources. *)

\* The descriptors of either arity, their remote types not known.
FetchRelationships ==
    [kind : {"ToOneRelationship", "ToManyRelationship"}, name : {None},
     mapped_key : {None}, key : {None}, remote_types : {None}]

\* getattr(resource, mapped_key): the attribute x holds one resource or
\* None, the attribute y a list of resources.
getattr(o, mapped_key) ==
    IF mapped_key = "x"
    THEN CASE o = "o1" -> Resource("o2")
           [] o = "o2" -> Resource("o2")
           [] OTHER -> None
    ELSE CASE o = "o1" -> List(<<Resource("o2"), Resource("o3")>>)
           [] o = "o2" -> List(<<>>)
           [] OTHER -> List(<<Resource("o3")>>)

\* relationship.get(includer, resource, request), with no fget: default_get
relationship_get(relationship, includer, o) ==
    getattr(o, relationship.mapped_key)

\* A list cannot be a member of a set.
Hashable(v) == v.kind # "list"

\* The loop of a to-one relationship, None left in the set.
to_one_related_with_none(relationship, includer, resources) ==
    LET RECURSIVE Loop(_, _)
        Loop(n, related) ==
            IF n > Len(resources) THEN Return(related)
            ELSE LET v == relationship_get(relationship, includer, resources[n])
                 IN  IF ~Hashable(v) THEN Raise("TypeError")
                     ELSE Loop(n + 1, related \cup {v})
    IN  Loop(1, {})

\* if relationship.to_one: related.add(...) for every resource, then
\* related.discard(None)
to_one_related(relationship, includer, resources) ==
    LET RECURSIVE Loop(_, _)
        Loop(n, related) ==
            IF n > Len(resources) THEN Return(related \ {None})
            ELSE LET v == relationship_get(relationship, includer, resources[n])
                 IN  IF ~Hashable(v) THEN Raise("TypeError")
                     ELSE Loop(n + 1, related \cup {v})
    IN  Loop(1, {})

\* else: related.update(...) for every resource
to_many_related(relationship, includer, resources) ==
    LET RECURSIVE Loop(_, _)
        Loop(n, related) ==
            IF n > Len(resources) THEN Return(related)
            ELSE LET v == relationship_get(relationship, includer, resources[n])
                 IN  IF v.kind # "list" THEN Raise("TypeError")
                     ELSE Loop(n + 1,
                               related \cup {v.items[k] : k \in 1..Len(v.items)})
    IN  Loop(1, {})

\* includer.fetch_path(resources, path, request): only the first name of
\* the path is used.
fetch_path_result(includer, resources, path) ==
    IF path = <<>> THEN Raise("ValueError")
    ELSE IF Head(path) \notin DOMAIN _relationships[includer.id]
    THEN Raise("KeyError")
    ELSE LET relationship == _relationships[includer.id][Head(path)]
         IN  IF relationship.kind = "ToOneRelationship"
             THEN to_one_related(relationship, includer, resources)
             ELSE to_many_related(relationship, includer, resources)

fetch_path(includer, resources, path) ==
    /\ ret' = [op |-> "fetch_path", includer |-> includer,
               resources |-> resources, path |-> path,
               out |-> fetch_path_result(includer, resources, path)]
    /\ UNCHANGED <<registry_vars, includer_vars, routing_vars, requests>>

-----------------------------------------------------------------------------
(* Strings with "/" in them.  A uri, a path or a url rule is the sequence   *)
(* of its pieces between the slashes: "/api/widgets" is <<"", "api",        *)
(* "widgets">>, "http://x/api" is <<"http:", "", "x", "api">>, "/api/" is   *)
(* <<"", "api", "">> and the empty string is <<"">>.                        *)

Front(s) == SubSeq(s, 1, Len(s) - 1)

Last(s) == s[Len(s)]

\* s.rstrip("/")
RECURSIVE RStripSlash(_)
RStripSlash(s) ==
    IF Len(s) > 1 /\ Last(s) = "" THEN RStripSlash(Front(s)) ELSE s

\* s + t for a t that starts with "/".
Concat(s, t) == s \o Tail(t)

Schemes == {"http:"}

\* urllib.parse.urlparse(uri).path: what follows the scheme and the host.
UrlParsePath(uri) ==
    IF Len(uri) >= 3 /\ uri[1] \in Schemes /\ uri[2] = ""
    THEN IF Len(uri) = 3 THEN <<"">> ELSE <<"">> \o SubSeq(uri, 4, Len(uri))
    ELSE uri

-----------------------------------------------------------------------------
(* Regular expressions, as far as the routes use them.  A pattern is, piece *)
(* by piece between the slashes, a literal or a named group                 *)
(* (?P<name>[^/]+?), with or without a closing "/?".                        *)

Lit(text) == [kind |-> "lit", text |-> text]

Group(name) == [kind |-> "group", text |-> name]

\* re.escape(s): every piece of s stands for itself.
Escape(s) == [n \in 1..Len(s) |-> Lit(s[n])]

\* The uris of the model hold no character that is special in a pattern, so
\* a uri used as a pattern without escaping stands for itself as well.
AsPattern(s) == [n \in 1..Len(s) |-> Lit(s[n])]

\* rule.startswith("/"), for a url rule
StartsWithSlash(rule) == Len(rule) > 1 /\ rule[1] = Lit("")

NoMatch == [matched |-> FALSE, groupdict |-> <<>>]

\* A group that matches the empty piece too, as [^/]* would.
PiecesMatch_empty_groups(elems, s) ==
    /\ Len(elems) = Len(s)
    /\ \A n \in 1..Len(elems) :
           elems[n].kind = "lit" => s[n] = elems[n].text

PiecesMatch(elems, s) ==
    /\ Len(elems) = Len(s)
    /\ \A n \in 1..Len(elems) :
           IF elems[n].kind = "lit" THEN s[n] = elems[n].text ELSE s[n] # ""

\* match.groupdict()
GroupDict(elems, s) ==
    LET places == {n \in 1..Len(elems) : elems[n].kind = "group"}
    IN  [g \in {elems[n].text : n \in places} |->
            s[CHOOSE n \in places : elems[n].text = g]]

\* re.fullmatch(pattern, s)
FullMatch(pattern, s) ==
    IF PiecesMatch(pattern.elems, s)
    THEN [matched |-> TRUE, groupdict |-> GroupDict(pattern.elems, s)]
    ELSE IF /\ pattern.optional_slash
            /\ Len(s) = Len(pattern.elems) + 1
            /\ Last(s) = ""
            /\ PiecesMatch(pattern.elems, Front(s))
    THEN [matched |-> TRUE, groupdict |-> GroupDict(pattern.elems, Front(s))]
    ELSE NoMatch

\* d.update(e)
DictUpdate(d, e) ==
    [k \in DOMAIN d \cup DOMAIN e |-> IF k \in DOMAIN e THEN e[k] ELSE d[k]]

-----------------------------------------------------------------------------
(* The dispatcher: API.__init__, add_handler, add_url_rule, _get_handler. *)

Handlers == {[kind |-> "Handler", id |-> 1], [kind |-> "Handler", id |-> 2]}

\* The handler added for the endpoints of a type.
EndpointHandlers == {[kind |-> "Handler", id |-> 3]}

\* The uris an API is made with: "/api/" and "http://x/api".
BaseUris == {<<"", "api", "">>, <<"http:", "", "x", "api">>}

\* The typenames and relationship names handlers are added for.
HandlerTypenames == {"widgets"}

HandlerRelnames == {NoneKey, "owner"}

EndpointTypes == {"collection", "resource", "relationship", "related", "other"}

\* The url rules handlers are added for: "/widgets", "/(?P<name>[^/]+)",
\* and "widgets", which has no "/".
UrlRules ==
    {<<Lit(""), Lit("widgets")>>,
     <<Lit(""), Group("name")>>,
     <<Lit("widgets")>>}

\* API.__init__(uri, debug): nothing is registered.
API_init(uri, debug) ==
    /\ _debug = debug
    /\ _uri = RStripSlash(uri)
    /\ _encoder = <<>>
    /\ _resource_class_to_encoder = <<>>
    /\ _includer = <<>>
    /\ _resource_class_to_includer = <<>>
    /\ _handler = <<>>
    /\ _routes = <<>>
    /\ encoder_api = {}
    /\ includer_api = {}
    /\ add_type_calls = <<>>
    /\ add_url_rule_calls = <<>>

\* A bool object.
BoolValue(b) == [kind |-> "bool", b |-> b]

\* What is assigned to debug: a bool, an int, None.
DebugValues ==
    {BoolValue(TRUE), BoolValue(FALSE), IntValue(0), IntValue(7), None}

\* bool(v)
Bool(v) ==
    CASE v = None -> FALSE
      [] v.kind = "bool" -> v.b
      [] v.kind = "int" -> v.n # 0

\* The property debug, read: return self._debug
debug_getter == _debug

\* The property debug, assigned: self.debug = bool(debug) assigns to the
\* property again, which calls the setter again, until the interpreter ends
\* the recursion; self._debug is never assigned.
RECURSIVE debug_setter_result(_, _)
debug_setter_result(debug, depth) ==
    IF depth > MaxRecursion THEN Raise("RecursionError")
    ELSE debug_setter_result(BoolValue(Bool(debug)), depth + 1)

\* api.debug = debug
debug_setter(debug) ==
    /\ ret' = [op |-> "debug_setter", debug |-> debug,
               out |-> debug_setter_result(debug, 1)]
    /\ UNCHANGED <<registry_vars, includer_vars, routing_vars, requests>>

\* add_handler(handler, typename, endpoint_type, relname)
add_handler(handler, typename, endpoint_type, relname) ==
    LET key == IF endpoint_type \in {"collection", "resource"}
               THEN <<typename, endpoint_type>>
               ELSE <<typename, endpoint_type, relname>>
        call == [op |-> "add_handler"]
    IN  /\ Setup
        /\ UNCHANGED <<registry_vars, includer_vars, _uri, _debug, _routes,
                       add_url_rule_calls, requests>>
        /\ IF endpoint_type \notin {"collection", "resource", "relationship",
                                    "related"}
           THEN /\ UNCHANGED _handler
                /\ ret' = call @@ [out |-> Return(None)]
           ELSE IF endpoint_type \in {"relationship", "related"}
                   /\ relname = NoneKey
           THEN /\ UNCHANGED _handler
                /\ ret' = call @@ [out |-> Raise("AssertionError")]
           ELSE /\ key \in DOMAIN _handler
                   \/ Cardinality(DOMAIN _handler) < MaxHandlers
                /\ _handler' = DictSet(_handler, key, handler)
                /\ ret' = call @@ [out |-> Return(None)]

\* A rule that is there is taken out and put at the end.
RoutesSet_moved_to_end(routes, rule, handler) ==
    LET IsOther(x) == x.rule # rule
    IN  Append(SelectSeq(routes, IsOther), [rule |-> rule, handler |-> handler])

\* self._routes[url_rule] = handler: a rule that is there keeps its place.
RoutesSet(routes, rule, handler) ==
    IF \E n \in 1..Len(routes) : routes[n].rule = rule
    THEN [n \in 1..Len(routes) |->
             IF routes[n].rule = rule
             THEN [rule |-> rule, handler |-> handler] ELSE routes[n]]
    ELSE Append(routes, [rule |-> rule, handler |-> handler])

\* add_url_rule(url_rule, handler)
add_url_rule(url_rule, handler) ==
    LET call == [op |-> "add_url_rule"]
    IN  /\ Setup
        /\ UNCHANGED <<registry_vars, includer_vars, _uri, _debug, _handler, requests>>
        /\ IF ~StartsWithSlash(url_rule)
           THEN /\ UNCHANGED <<_routes, add_url_rule_calls>>
                /\ ret' = call @@ [out |-> Raise("AssertionError")]
           ELSE /\ Len(add_url_rule_calls) < MaxAddUrlRule
                /\ _routes' = RoutesSet(_routes,
                       [elems |-> Concat(AsPattern(_uri), url_rule),
                        optional_slash |-> FALSE], handler)
                /\ add_url_rule_calls' = Append(add_url_rule_calls,
                       [url_rule |-> url_rule, handler |-> handler])
                /\ ret' = call @@ [out |-> Return(None)]

\* The four patterns _get_handler builds from the escaped root uri.
collection_re ==
    [elems |-> Concat(Escape(_uri), <<Lit(""), Group("type")>>),
     optional_slash |-> TRUE]

resource_re ==
    [elems |-> Concat(Escape(_uri), <<Lit(""), Group("type"), Group("id")>>),
     optional_slash |-> TRUE]

relationship_re ==
    [elems |-> Concat(Escape(_uri),
                   <<Lit(""), Group("type"), Group("id"),
                     Lit("relationships"), Group("relname")>>),
     optional_slash |-> TRUE]

related_re ==
    [elems |-> Concat(Escape(_uri),
                   <<Lit(""), Group("type"), Group("id"), Group("relname")>>),
     optional_slash |-> TRUE]

\* The last custom route that matches.
LastMatchingRoute(path) ==
    LET hits == {n \in 1..Len(_routes) : FullMatch(_routes[n].rule, path).matched}
    IN  IF hits = {} THEN 0 ELSE CHOOSE n \in hits : \A m \in hits : n >= m

\* The first custom route, in the order of the dictionary, that matches.
FirstMatchingRoute(path) ==
    LET hits == {n \in 1..Len(_routes) : FullMatch(_routes[n].rule, path).matched}
    IN  IF hits = {} THEN 0 ELSE CHOOSE n \in hits : \A m \in hits : n <= m

\* _get_handler(request), for a request with this path and these
\* japi_uri_arguments: the handler it returns, the arguments it leaves on the
\* request, which pattern matched and the key looked up in the table.
get_handler_result(path, arguments) ==
    LET n == FirstMatchingRoute(path)
        collection == FullMatch(collection_re, path)
        resource == FullMatch(resource_re, path)
        relationship == FullMatch(relationship_re, path)
        related == FullMatch(related_re, path)
        Found(match, endpoint, spec) ==
            [handler |-> DictGet(_handler, spec),
             arguments |-> DictUpdate(arguments, match.groupdict),
             endpoint |-> endpoint, spec |-> spec]
    IN  IF n # 0
        THEN [handler |-> _routes[n].handler,
              arguments |-> DictUpdate(arguments,
                                FullMatch(_routes[n].rule, path).groupdict),
              endpoint |-> "custom", spec |-> <<>>]
        ELSE IF collection.matched
        THEN Found(collection, "collection",
                   <<collection.groupdict["type"], "collection">>)
        ELSE IF resource.matched
        THEN Found(resource, "resource",
                   <<resource.groupdict["type"], "resource">>)
        ELSE IF relationship.matched
        THEN Found(relationship, "relationship",
                   <<relationship.groupdict["type"], "relationship",
                     relationship.groupdict["relname"]>>)
        ELSE IF related.matched
        THEN Found(related, "related",
                   <<related.groupdict["type"], "related",
                     related.groupdict["relname"]>>)
        ELSE [handler |-> None, arguments |-> arguments,
              endpoint |-> "none", spec |-> <<>>]

\* The pieces a request path is made of, and what may come before them.
Segments == {"widgets", "relationships"}

Prefixes == {<<"", "api">>, <<"http:", "", "x", "api">>, <<"", "other">>}

\* The paths of the four endpoints of widget 42, and one that is too long.
ExampleTails ==
    {<<"widgets">>, <<"widgets", "42">>, <<"widgets", "42", "owner">>,
     <<"widgets", "42", "relationships", "owner">>,
     <<"widgets", "42", "owner", "widgets">>}

Tails ==
    ExampleTails \cup
    UNION {[1..n -> Segments] : n \in 0..MaxSegments}

\* The uris requests are made for, each with and without a closing "/":
\* the examples under every prefix, any path under "/api".
RequestUris ==
    {p \o t \o slash : p \in Prefixes, t \in ExampleTails,
                        slash \in {<<>>, <<"">>}}
    \cup {<<"", "api">> \o t \o slash : t \in Tails, slash \in {<<>>, <<"">>}}

ThisAPI == [kind |-> "API", id |-> "self"]

OtherAPI == [kind |-> "API", id |-> "other"]

\* Request(uri, ..., api): a request nothing was done with.
Request(uri, api) ==
    [pc |-> "start", uri |-> uri, path |-> UrlParsePath(uri), api |-> api,
     japi_uri_arguments |-> <<>>, handler |-> None, endpoint |-> "none",
     spec |-> <<>>, handled |-> None, resp |-> None, calls |-> <<>>,
     raised |-> None, out |-> None]

\* The request after _get_handler, had all requests one dictionary of
\* arguments between them.
Routed_shared_arguments(request) ==
    LET others == {r \in DOMAIN requests : requests[r].pc # "none"}
        RECURSIVE Merged(_)
        Merged(rs) ==
            IF rs = {} THEN request.japi_uri_arguments
            ELSE LET r == CHOOSE r \in rs : TRUE
                 IN  DictUpdate(Merged(rs \ {r}), requests[r].japi_uri_arguments)
        found == get_handler_result(request.path, Merged(others))
    IN  [request EXCEPT !.japi_uri_arguments = found.arguments,
                        !.handler = found.handler,
                        !.endpoint = found.endpoint,
                        !.spec = found.spec,
                        !.calls = Append(@, "_get_handler")]

\* The request after _get_handler(request).
Routed(request) ==
    LET found == get_handler_result(request.path, request.japi_uri_arguments)
    IN  [request EXCEPT !.japi_uri_arguments = found.arguments,
                        !.handler = found.handler,
                        !.endpoint = found.endpoint,
                        !.spec = found.spec,
                        !.calls = Append(@, "_get_handler")]

\* _get_handler(request), called on a new request for uri.
get_handler(r, uri) ==
    /\ requests[r].pc = "none"
    /\ requests' = [requests EXCEPT
                       ![r] = [Routed(Request(uri, None)) EXCEPT !.pc = "routed"]]
    /\ UNCHANGED <<registry_vars, includer_vars, routing_vars, ret>>

-----------------------------------------------------------------------------
(* API.handle_request(request), step by step.  What the collaborators do    *)
(* (an overridden prepare_request, the handler, the response builder) is    *)
(* chosen among what they can do: return, or raise an error.  The field     *)
(* calls of a request lists the calls made for it, the field raised the     *)
(* error raised inside the try block and the step that raised it.           *)

\* Errors of the hierarchy of errors.Error, and an error outside of it.
DomainErrors == {"NotFound", "Forbidden"}

OtherErrors == {"ValueError"}

Response(status) == [kind |-> "Response", status |-> status]

\* A response builder, with or without the IncludeMixin.
ResponseBuilder(include) == [kind |-> "ResponseBuilder", include |-> include]

\* The http status of a domain error.
HttpStatus(err) == IF err = "NotFound" THEN 404 ELSE 403

\* errors.error_to_response(err, dump_json)
error_to_response(err) == Response(HttpStatus(err))

Outcomes == {Return(None)} \cup {Raise(e) : e \in DomainErrors \cup OtherErrors}

\* What handler.handle(request) can do.
HandleOutcomes ==
    {Return(Response(200)), Return(ResponseBuilder(TRUE)),
     Return(ResponseBuilder(FALSE))}
    \cup {Raise(e) : e \in DomainErrors \cup OtherErrors}

\* What builder.to_response() can do.
ToResponseOutcomes ==
    {Return(Response(200))} \cup {Raise(e) : e \in DomainErrors \cup OtherErrors}

\* Every error is caught and turned into a response.
Except_catch_all(request, step, err) ==
    [request EXCEPT !.pc = "done",
                    !.raised = [step |-> step, exc |-> err],
                    !.calls = Append(@, "error_to_response"),
                    !.resp = error_to_response(err),
                    !.out = Return(error_to_response(err))]

\* An error raised in the try block: "except errors.Error as err" catches a
\* domain error, which is raised again in debug mode and turned into a
\* response otherwise; any other error leaves handle_request.
Except(request, step, err) ==
    IF err \in DomainErrors /\ ~_debug
    THEN [request EXCEPT !.pc = "done",
                         !.raised = [step |-> step, exc |-> err],
                         !.calls = Append(@, "error_to_response"),
                         !.resp = error_to_response(err),
                         !.out = Return(error_to_response(err))]
    ELSE [request EXCEPT !.pc = "done",
                         !.raised = [step |-> step, exc |-> err],
                         !.out = Raise(err)]

\* A Request is made.
new_request(r, uri, api) ==
    /\ requests[r].pc = "none"
    /\ requests' = [requests EXCEPT ![r] = Request(uri, api)]
    /\ UNCHANGED <<registry_vars, includer_vars, routing_vars, ret>>

\* The request is bound to this API, whatever it was bound to.
BindAPI_unchecked(r) ==
    /\ requests[r].pc = "start"
    /\ requests' = [requests EXCEPT ![r] =
           [@ EXCEPT !.api = ThisAPI, !.pc = "prepare"]]
    /\ UNCHANGED <<registry_vars, includer_vars, routing_vars, ret>>

\* assert request.api is None or request.api is self; request.api = self
BindAPI(r) ==
    /\ requests[r].pc = "start"
    /\ requests' = [requests EXCEPT ![r] =
           IF requests[r].api \in {None, ThisAPI}
           THEN [@ EXCEPT !.api = ThisAPI, !.pc = "prepare"]
           ELSE [@ EXCEPT !.pc = "done", !.out = Raise("AssertionError")]]
    /\ UNCHANGED <<registry_vars, includer_vars, routing_vars, ret>>

\* self.prepare_request(request)
Prepare(r, outcome) ==
    /\ requests[r].pc = "prepare"
    /\ requests' = [requests EXCEPT ![r] =
           LET called == [@ EXCEPT !.calls = Append(@, "prepare_request")]
           IN  IF outcome.kind = "return"
               THEN [called EXCEPT !.pc = "route"]
               ELSE Except(called, "prepare", outcome.exc)]
    /\ UNCHANGED <<registry_vars, includer_vars, routing_vars, ret>>

\* The handler is used whether there is one or not.
Route_unchecked(r) ==
    /\ requests[r].pc = "route"
    /\ requests' = [requests EXCEPT ![r] =
           [Routed(@) EXCEPT !.pc = "invoke"]]
    /\ UNCHANGED <<registry_vars, includer_vars, routing_vars, ret>>

\* handler = self._get_handler(request); no handler raises NotFound.
Route(r) ==
    /\ requests[r].pc = "route"
    /\ requests' = [requests EXCEPT ![r] =
           LET routed == Routed(@)
           IN  IF routed.handler = None
               THEN Except(routed, "route", "NotFound")
               ELSE [routed EXCEPT !.pc = "invoke"]]
    /\ UNCHANGED <<registry_vars, includer_vars, routing_vars, ret>>

\* A builder is converted at once, whether it can include or not.
Invoke_without_include(r, outcome) ==
    /\ requests[r].pc = "invoke"
    /\ requests' = [requests EXCEPT ![r] =
           LET called == [@ EXCEPT !.calls = Append(@, "handle"),
                                   !.handled = outcome]
           IN  IF outcome.kind = "raise"
               THEN Except(called, "invoke", outcome.exc)
               ELSE IF outcome.value.kind = "ResponseBuilder"
               THEN [called EXCEPT !.resp = outcome.value,
                                   !.pc = "to_response"]
               ELSE [called EXCEPT !.resp = outcome.value, !.pc = "done",
                                   !.out = Return(outcome.value)]]
    /\ UNCHANGED <<registry_vars, includer_vars, routing_vars, ret>>

\* resp = handler.handle(request): a response is returned as it is, a
\* response builder is finished first.  The field handled keeps what
\* handle() returned or raised.
Invoke(r, outcome) ==
    /\ requests[r].pc = "invoke"
    /\ requests' = [requests EXCEPT ![r] =
           LET called == [@ EXCEPT !.calls = Append(@, "handle"),
                                   !.handled = outcome]
           IN  IF outcome.kind = "raise"
               THEN Except(called, "invoke", outcome.exc)
               ELSE IF outcome.value.kind = "ResponseBuilder"
               THEN [called EXCEPT !.resp = outcome.value,
                         !.pc = IF outcome.value.include
                                THEN "fetch_include" ELSE "to_response"]
               ELSE [called EXCEPT !.resp = outcome.value, !.pc = "done",
                                   !.out = Return(outcome.value)]]
    /\ UNCHANGED <<registry_vars, includer_vars, routing_vars, ret>>

\* resp.fetch_include(), of a builder with the IncludeMixin
FetchInclude(r, outcome) ==
    /\ requests[r].pc = "fetch_include"
    /\ requests' = [requests EXCEPT ![r] =
           LET called == [@ EXCEPT !.calls = Append(@, "fetch_include")]
           IN  IF outcome.kind = "raise"
               THEN Except(called, "finalize", outcome.exc)
               ELSE [called EXCEPT !.pc = "to_response"]]
    /\ UNCHANGED <<registry_vars, includer_vars, routing_vars, ret>>

\* resp = resp.to_response()
ToResponse(r, outcome) ==
    /\ requests[r].pc = "to_response"
    /\ requests' = [requests EXCEPT ![r] =
           LET called == [@ EXCEPT !.calls = Append(@, "to_response")]
           IN  IF outcome.kind = "raise"
               THEN Except(called, "finalize", outcome.exc)
               ELSE [called EXCEPT !.resp = outcome.value, !.pc = "done",
                                   !.out = Return(outcome.value)]]
    /\ UNCHANGED <<registry_vars, includer_vars, routing_vars, ret>>

-----------------------------------------------------------------------------
(* The registry on its own: any add_type calls, any lookups. *)

InitRegistry ==
    /\ API_init(<<"", "api">>, TRUE)
    /\ Includer_init
    /\ frames = <<>>
    /\ requests = [r \in Requests |-> NoRequest]
    /\ ret = [op |-> "init"]

NextRegistry ==
    \/ \E e \in Encoders, i \in Includers \cup {None} : add_type(e, i)
    \/ \E o \in LookupKeys, d \in Defaults : get_encoder(o, d)
    \/ \E o \in LookupKeys, d \in Defaults : get_includer(o, d)

SpecRegistry == InitRegistry /\ [][NextRegistry]_vars

-----------------------------------------------------------------------------
(* Routing on its own: any API, any handlers and url rules, any request. *)

InitRouting ==
    /\ \E uri \in BaseUris : API_init(uri, TRUE)
    /\ Includer_init
    /\ frames = <<>>
    /\ requests = [r \in Requests |-> NoRequest]
    /\ ret = [op |-> "init"]

NextRouting ==
    \/ \E h \in EndpointHandlers, t \in HandlerTypenames,
          e \in EndpointTypes, n \in HandlerRelnames : add_handler(h, t, e, n)
    \/ \E u \in UrlRules, h \in Handlers : add_url_rule(u, h)
    \/ \E r \in Requests, uri \in RequestUris : get_handler(r, uri)

SpecRouting == InitRouting /\ [][NextRouting]_vars

-----------------------------------------------------------------------------
(* Dispatch: an API in either mode, a collection or resource handler and a  *)
(* url rule or none, and a request handled step by step.                    *)

\* The uris of the dispatched requests: "/api/widgets", "/api/widgets/42",
\* "/api/widgets/42/owner", "/api" and "http://x/api/widgets".
DispatchUris ==
    {<<"", "api", "widgets">>, <<"", "api", "widgets", "42">>,
     <<"", "api", "widgets", "42", "owner">>, <<"", "api">>,
     <<"http:", "", "x", "api", "widgets">>}

DispatchUrlRules == {<<Lit(""), Group("type"), Group("pk")>>}

InitDispatch ==
    /\ \E uri \in BaseUris, debug \in BOOLEAN : API_init(uri, debug)
    /\ Includer_init
    /\ frames = <<>>
    /\ requests = [r \in Requests |-> NoRequest]
    /\ ret = [op |-> "init"]

NextDispatch ==
    \/ \E h \in EndpointHandlers, t \in HandlerTypenames,
          e \in {"collection", "resource"} : add_handler(h, t, e, NoneKey)
    \/ \E u \in DispatchUrlRules, h \in EndpointHandlers : add_url_rule(u, h)
    \/ \E r \in Requests, uri \in DispatchUris, api \in {None, ThisAPI, OtherAPI} :
          new_request(r, uri, api)
    \/ \E r \in Requests : BindAPI(r)
    \/ \E r \in Requests, outcome \in Outcomes : Prepare(r, outcome)
    \/ \E r \in Requests : Route(r)
    \/ \E r \in Requests, outcome \in HandleOutcomes : Invoke(r, outcome)
    \/ \E r \in Requests, outcome \in Outcomes : FetchInclude(r, outcome)
    \/ \E r \in Requests, outcome \in ToResponseOutcomes : ToResponse(r, outcome)

SpecDispatch == InitDispatch /\ [][NextDispatch]_vars

-----------------------------------------------------------------------------
(* Include paths: types registered with their includers, relationships      *)
(* added to the includers, and any include path checked.                    *)

\* The encoder of a type.
EncoderOf(typename, resource_class) ==
    [kind |-> "Encoder", id |-> 1, typename |-> typename,
     resource_class |-> resource_class]

\* The types, each registered with the includer of its name.
IncludedTypes ==
    {<<EncoderOf("A", "C1"), [kind |-> "Includer", id |-> "A"]>>,
     <<EncoderOf("B", "C2"), [kind |-> "Includer", id |-> "B"]>>}

\* Paths: lists of relationship names.
Paths == UNION {[1..n -> RelNames] : n \in 0..MaxPath}

\* Lists of paths.
PathLists ==
    {<<>>} \cup {<<p, q>> : p \in {<<>>, <<"x">>}, q \in {<<"y">>, <<"x", "y">>}}

InitInclude ==
    /\ API_init(<<"", "api">>, TRUE)
    /\ Includer_init
    /\ frames = <<>>
    /\ requests = [r \in Requests |-> NoRequest]
    /\ ret = [op |-> "init"]

NextInclude ==
    \/ \E t \in IncludedTypes : add_type(t[1], t[2])
    \/ \E i \in Includers, key \in RelNames, method \in Relationships :
          add_includer_method(i, key, method)
    \/ \E i \in Includers, path \in Paths : path_exists(i, path)
    \/ \E i \in Includers, paths \in PathLists : paths_exist(i, paths)

SpecInclude == InitInclude /\ [][NextInclude]_vars

-----------------------------------------------------------------------------
(* Identifiers: any types registered, any reference normalized. *)

InitIdentifier ==
    /\ API_init(<<"", "api">>, TRUE)
    /\ Includer_init
    /\ frames = <<>>
    /\ requests = [r \in Requests |-> NoRequest]
    /\ ret = [op |-> "init"]

NextIdentifier ==
    \/ \E e \in Encoders : add_type(e, None)
    \/ \E obj \in IdentifierInputs : ensure_identifier_object(obj)
    \/ \E obj \in IdentifierInputs : ensure_identifier(obj)

SpecIdentifier == InitIdentifier /\ [][NextIdentifier]_vars

-----------------------------------------------------------------------------
(* Fetching: an includer with relationships of either arity, any           *)
(* resources, any path.                                                     *)

\* The includer that fetches.
FetchIncluder == [kind |-> "Includer", id |-> "A"]

\* Lists of resources.
ResourceLists == UNION {[1..n -> Instances] : n \in 0..MaxResources}

InitFetch ==
    /\ API_init(<<"", "api">>, TRUE)
    /\ Includer_init
    /\ frames = <<>>
    /\ requests = [r \in Requests |-> NoRequest]
    /\ ret = [op |-> "init"]

NextFetch ==
    \/ \E key \in RelNames, method \in FetchRelationships :
          add_includer_method(FetchIncluder, key, method)
    \/ \E resources \in ResourceLists, path \in Paths :
          fetch_path(FetchIncluder, resources, path)

SpecFetch == InitFetch /\ [][NextFetch]_vars

-----------------------------------------------------------------------------
(* Concurrent dispatch: once the API is set up, two requests are handled,   *)
(* the steps of one interleaved with the steps of the other; the default    *)
(* prepare_request returns.                                                 *)

ConcurrentRequests == {"r1", "r2"}

\* The uris of the concurrent requests: "/api/widgets", "/api/widgets/42"
\* and "/api".
ConcurrentUris ==
    {<<"", "api", "widgets">>, <<"", "api", "widgets", "42">>, <<"", "api">>}

\* What the handler does in the concurrent requests.
ConcurrentOutcomes ==
    {Return(Response(200)), Return(ResponseBuilder(TRUE)), Raise("Forbidden")}

InitConcurrent ==
    /\ \E debug \in BOOLEAN : API_init(<<"", "api">>, debug)
    /\ Includer_init
    /\ frames = <<>>
    /\ requests = [r \in ConcurrentRequests |-> NoRequest]
    /\ ret = [op |-> "init"]

NextConcurrent ==
    \/ \E h \in EndpointHandlers, t \in HandlerTypenames,
          e \in {"collection", "resource"} : add_handler(h, t, e, NoneKey)
    \/ \E u \in DispatchUrlRules, h \in EndpointHandlers : add_url_rule(u, h)
    \/ \E r \in ConcurrentRequests, uri \in ConcurrentUris :
          new_request(r, uri, None)
    \/ \E r \in ConcurrentRequests : BindAPI(r)
    \/ \E r \in ConcurrentRequests : Prepare(r, Return(None))
    \/ \E r \in ConcurrentRequests : Route(r)
    \/ \E r \in ConcurrentRequests, outcome \in ConcurrentOutcomes :
          Invoke(r, outcome)
    \/ \E r \in ConcurrentRequests : FetchInclude(r, Return(None))
    \/ \E r \in ConcurrentRequests : ToResponse(r, Return(Response(200)))

SpecConcurrent == InitConcurrent /\ [][NextConcurrent]_vars

-----------------------------------------------------------------------------
(* Termination of path_exists: the two types registered, relationships      *)
(* called x among them that may form a cycle, and path_exists followed call *)
(* by call.  Nothing is registered while a call runs, and a call that has   *)
(* begun goes on.                                                           *)

\* The relationships of the graph: to both types, to an unregistered type,
\* or to types not known.
CycleRelationships == Relationships

\* add_type, called while no path_exists call runs.
add_type_between_calls(encoder, includer) ==
    /\ frames = <<>>
    /\ add_type(encoder, includer)

\* add_includer_method, called while no path_exists call runs.
add_includer_method_between_calls(includer, key, method) ==
    /\ frames = <<>>
    /\ add_includer_method(includer, key, method)

InitTermination ==
    /\ API_init(<<"", "api">>, TRUE)
    /\ Includer_init
    /\ frames = <<>>
    /\ requests = [r \in Requests |-> NoRequest]
    /\ ret = [op |-> "init"]

NextTermination ==
    \/ \E t \in IncludedTypes : add_type_between_calls(t[1], t[2])
    \/ \E i \in Includers, method \in CycleRelationships :
          add_includer_method_between_calls(i, "x", method)
    \/ \E i \in Includers, path \in Paths : call_path_exists(i, path)
    \/ path_exists_step

SpecTermination ==
    InitTermination /\ [][NextTermination]_vars /\ WF_vars(path_exists_step)

-----------------------------------------------------------------------------
(* Switching modes: debug is assigned before and after a request is         *)
(* handled.                                                                 *)

\* The uris of the requests: "/api/widgets" and "/api".
DebugUris == {<<"", "api", "widgets">>, <<"", "api">>}

\* debug is assigned while no request is being handled.
debug_setter_between_requests(debug) ==
    /\ \A r \in DOMAIN requests : requests[r].pc \in {"none", "done"}
    /\ debug_setter(debug)

InitDebug ==
    /\ \E debug \in BOOLEAN : API_init(<<"", "api">>, debug)
    /\ Includer_init
    /\ frames = <<>>
    /\ requests = [r \in Requests |-> NoRequest]
    /\ ret = [op |-> "init"]

NextDebug ==
    \/ \E h \in EndpointHandlers :
          add_handler(h, "widgets", "collection", NoneKey)
    \/ \E debug \in DebugValues : debug_setter_between_requests(debug)
    \/ \E r \in Requests, uri \in DebugUris : new_request(r, uri, None)
    \/ \E r \in Requests : BindAPI(r)
    \/ \E r \in Requests : Prepare(r, Return(None))
    \/ \E r \in Requests : Route(r)
    \/ \E r \in Requests, outcome \in ConcurrentOutcomes : Invoke(r, outcome)
    \/ \E r \in Requests : FetchInclude(r, Return(None))
    \/ \E r \in Requests : ToResponse(r, Return(Response(200)))

SpecDebug == InitDebug /\ [][NextDebug]_vars

-----------------------------------------------------------------------------
(* Claims about the registry. *)

NumCalls == Len(add_type_calls)

RegisteredEncoder(n) == add_type_calls[n].encoder

\* The add_type calls for typename t, and the last of them.
CallsFor(t) == {n \in 1..NumCalls : RegisteredEncoder(n).typename = t}

LastCallFor(t) == CHOOSE n \in CallsFor(t) : \A m \in CallsFor(t) : m <= n

\* The three lookups of an encoder registered for a typename and a class all
\* return encoder e.
AllLookupsReturn(e, o) ==
    /\ get_encoder_result(e.typename, ARG_DEFAULT) = Return(e)
    /\ get_encoder_result(e.resource_class, ARG_DEFAULT) = Return(e)
    /\ get_encoder_result(o, ARG_DEFAULT) = Return(e)

\* C3 as stated: after any add_type calls, for every registered (typename,
\* class) pair, get_encoder by the typename, by the class and by an instance
\* of the class all return the same encoder.
C3_AnyRegisteredPair ==
    \A n \in 1..NumCalls : \A o \in Instances :
        TypeOf(o) = RegisteredEncoder(n).resource_class =>
            LET e == RegisteredEncoder(n)
                a == get_encoder_result(e.typename, ARG_DEFAULT)
                b == get_encoder_result(e.resource_class, ARG_DEFAULT)
                c == get_encoder_result(o, ARG_DEFAULT)
            IN  a.kind = "return" /\ a = b /\ b = c

\* No later add_type registered another encoder under the typename or under
\* the resource class of the n-th registration.
NotReRegistered(n) ==
    \A m \in (n + 1)..NumCalls :
        RegisteredEncoder(m) # RegisteredEncoder(n) =>
            /\ RegisteredEncoder(m).typename # RegisteredEncoder(n).typename
            /\ RegisteredEncoder(m).resource_class
                   # RegisteredEncoder(n).resource_class

\* C3 amended: for every registered (typename, class) pair that no later
\* add_type re-registered with another encoder, get_encoder by the typename,
\* by the class and by an object whose runtime class is that class all
\* return the registered encoder.
C3_LatestPair ==
    \A n \in 1..NumCalls : \A o \in Instances :
        (NotReRegistered(n) /\ TypeOf(o) = RegisteredEncoder(n).resource_class)
            => AllLookupsReturn(RegisteredEncoder(n), o)

\* C3 witness: two different encoders are registered, and get_encoder of an
\* instance has just returned the first one.
C3_Witness ==
    /\ NumCalls = 2
    /\ RegisteredEncoder(1) # RegisteredEncoder(2)
    /\ NotReRegistered(1)
    /\ ret.op = "get_encoder"
    /\ ret.o \in Instances
    /\ ret.out = Return(RegisteredEncoder(1))

\* The key o matches nothing that add_type stored for encoders.
NoEncoderFor(o) ==
    \A n \in 1..NumCalls :
        /\ RegisteredEncoder(n).typename # o
        /\ RegisteredEncoder(n).resource_class # o
        /\ RegisteredEncoder(n).resource_class # TypeOf(o)

\* The key o matches nothing that add_type stored for includers.
NoIncluderFor(o) ==
    \A n \in 1..NumCalls :
        add_type_calls[n].includer # None => 
            /\ RegisteredEncoder(n).typename # o
            /\ RegisteredEncoder(n).resource_class # o
            /\ RegisteredEncoder(n).resource_class # TypeOf(o)

Unmatched ==
    \/ ret.op = "get_encoder" /\ NoEncoderFor(ret.o)
    \/ ret.op = "get_includer" /\ NoIncluderFor(ret.o)

\* C4: a lookup of a key that matches no typename, no class and no class of
\* an instance raises KeyError (the NotFoundError of the registry) without a
\* default and returns the default, None included, with one; and a lookup
\* leaves the registry as it was.
C4_UnmatchedLookup ==
    /\ [](Unmatched =>
            ret.out = IF ret.default = ARG_DEFAULT THEN Raise("KeyError")
                      ELSE Return(ret.default))
    /\ [][ret'.op \in {"get_encoder", "get_includer"}
            => registry_vars' = registry_vars]_vars

\* C4 witness: with something registered, a lookup of an unmatched key with
\* the default None has returned None.
C4_Witness ==
    /\ NumCalls > 0
    /\ add_type_calls[1].includer # None
    /\ Unmatched
    /\ ret.op = "get_includer"
    /\ ret.default = None
    /\ ret.out = Return(None)

\* C9 as stated: add_type of an encoder without a typename or without a
\* resource class returns normally, after which init_api was called on the
\* encoder and on the includer, and lookups by the keys the encoder has
\* return it.
C9_AddTypeWithoutKey ==
    (/\ ret.op = "add_type"
     /\ (ret.encoder.typename = NoneKey \/ ret.encoder.resource_class = NoneKey))
    => /\ ret.out = Return(None)
       /\ ret.encoder \in encoder_api
       /\ ret.includer # None => ret.includer \in includer_api
       /\ ret.encoder.typename # NoneKey =>
              get_encoder_result(ret.encoder.typename, ARG_DEFAULT)
                  = Return(ret.encoder)
       /\ ret.encoder.resource_class # NoneKey =>
              get_encoder_result(ret.encoder.resource_class, ARG_DEFAULT)
                  = Return(ret.encoder)

\* The last registration for typename t that came with an includer.
CallsWithIncluderFor(t) ==
    {n \in CallsFor(t) : add_type_calls[n].includer # None}

LastIncluderFor(t) ==
    IF CallsWithIncluderFor(t) = {} THEN None
    ELSE add_type_calls[CHOOSE n \in CallsWithIncluderFor(t) :
                            \A m \in CallsWithIncluderFor(t) : m <= n].includer

\* C10 as stated: for every registered typename, get_encoder and
\* get_includer return the encoder and the includer of the latest add_type
\* for that typename, and nothing of an earlier one.
C10_LatestRegistration ==
    \A t \in Typenames : CallsFor(t) # {} =>
        /\ get_encoder_result(t, ARG_DEFAULT)
               = Return(RegisteredEncoder(LastCallFor(t)))
        /\ get_includer_result(t, None)
               = Return(add_type_calls[LastCallFor(t)].includer)

\* C10 amended: for every registered typename, get_encoder returns the
\* encoder of the latest add_type for that typename, and get_includer the
\* includer of the latest add_type for that typename that was given one.
C10_LatestIncluderGiven ==
    \A t \in Typenames : CallsFor(t) # {} =>
        /\ get_encoder_result(t, ARG_DEFAULT)
               = Return(RegisteredEncoder(LastCallFor(t)))
        /\ get_includer_result(t, None) = Return(LastIncluderFor(t))

\* C10 witness: a typename registered with an includer and registered again
\* with another encoder and no includer; get_includer returned the includer.
C10_Witness ==
    /\ NumCalls = 2
    /\ RegisteredEncoder(1).typename = RegisteredEncoder(2).typename
    /\ RegisteredEncoder(1) # RegisteredEncoder(2)
    /\ add_type_calls[1].includer # None
    /\ add_type_calls[2].includer = None
    /\ ret.op = "get_includer"
    /\ ret.o = RegisteredEncoder(1).typename
    /\ ret.out = Return(add_type_calls[1].includer)

-----------------------------------------------------------------------------
(* Claims about routing. *)

\* The names a type, an id or a relationship has in a request.
Names == Segments \cup {"42", "owner"}

\* The address made of the root uri and a path, with and without a "/".
Address(path) == {Concat(_uri, <<"">> \o path), Concat(_uri, <<"">> \o path \o <<"">>)}

\* _get_handler took the pattern of this endpoint, looked this key up in the
\* handler table and left these arguments on the request.
Resolved(request, endpoint, key, arguments) ==
    /\ request.endpoint = endpoint
    /\ request.spec = key
    /\ request.handler = DictGet(_handler, key)
    /\ request.japi_uri_arguments = arguments

\* C1 as stated: when no custom route matches, a request for B/T, B/T/I,
\* B/T/I/relationships/R or B/T/I/R, with or without a closing slash, is
\* resolved as the collection, resource, relationship or related endpoint,
\* with the key of that endpoint and the arguments type, id and relname,
\* for every root uri B, "http://x/api" included.
C1_FourEndpoints ==
    \A r \in Requests :
        (requests[r].pc = "routed" /\ requests[r].endpoint # "custom") =>
            \A T \in Names, I \in Names, R \in Names :
                /\ requests[r].uri \in Address(<<T>>) =>
                       Resolved(requests[r], "collection", <<T, "collection">>,
                                [type |-> T])
                /\ requests[r].uri \in Address(<<T, I>>) =>
                       Resolved(requests[r], "resource", <<T, "resource">>,
                                [type |-> T, id |-> I])
                /\ requests[r].uri \in Address(<<T, I, "relationships", R>>) =>
                       Resolved(requests[r], "relationship",
                                <<T, "relationship", R>>,
                                [type |-> T, id |-> I, relname |-> R])
                /\ requests[r].uri \in Address(<<T, I, R>>) =>
                       Resolved(requests[r], "related", <<T, "related", R>>,
                                [type |-> T, id |-> I, relname |-> R])

\* The n-th url rule that was added matches the path.
RuleMatches(n, path) ==
    FullMatch([elems |-> Concat(AsPattern(_uri), add_url_rule_calls[n].url_rule),
               optional_slash |-> FALSE], path)

MatchingCalls(path) ==
    {n \in 1..Len(add_url_rule_calls) : RuleMatches(n, path).matched}

\* The first call that added a rule matching the path, and the last call
\* that added that same rule.
FirstMatchingCall(path) ==
    CHOOSE n \in MatchingCalls(path) : \A m \in MatchingCalls(path) : n <= m

LastCallOfRule(n) ==
    CHOOSE k \in 1..Len(add_url_rule_calls) :
        /\ add_url_rule_calls[k].url_rule = add_url_rule_calls[n].url_rule
        /\ \A m \in 1..Len(add_url_rule_calls) :
               add_url_rule_calls[m].url_rule = add_url_rule_calls[n].url_rule
                   => m <= k

\* C2: when the path of a request matches a custom rule, _get_handler
\* returns the handler of the first matching rule in the order the rules
\* were first added (the handler that rule was last added with) and merges
\* the groups of that rule into the arguments of the request, whatever the
\* handler table holds; a pattern of the four endpoints is taken only when
\* no custom rule matches.
C2_CustomRouteFirst ==
    \A r \in Requests : requests[r].pc = "routed" =>
        IF MatchingCalls(requests[r].path) # {}
        THEN LET n == FirstMatchingCall(requests[r].path)
             IN  /\ requests[r].endpoint = "custom"
                 /\ requests[r].handler
                        = add_url_rule_calls[LastCallOfRule(n)].handler
                 /\ requests[r].japi_uri_arguments
                        = RuleMatches(n, requests[r].path).groupdict
        ELSE requests[r].endpoint # "custom"

\* C2 witness: two rules with different handlers match "/api/widgets", and
\* so does the collection pattern, for which a handler is in the table; the
\* request got the handler of the rule added first.
C2_Witness ==
    \E r \in Requests :
        /\ requests[r].pc = "routed"
        /\ requests[r].path = <<"", "api", "widgets">>
        /\ Len(add_url_rule_calls) = 2
        /\ MatchingCalls(requests[r].path) = {1, 2}
        /\ add_url_rule_calls[1].url_rule # add_url_rule_calls[2].url_rule
        /\ add_url_rule_calls[1].handler # add_url_rule_calls[2].handler
        /\ <<"widgets", "collection">> \in DOMAIN _handler
        /\ requests[r].handler = add_url_rule_calls[1].handler
        /\ requests[r].japi_uri_arguments = [name |-> "widgets"]

\* The endpoints whose pattern matches the path.
MatchingEndpoints(path) ==
    {e \in {"collection", "resource", "relationship", "related"} :
        FullMatch(CASE e = "collection" -> collection_re
                    [] e = "resource" -> resource_re
                    [] e = "relationship" -> relationship_re
                    [] OTHER -> related_re, path).matched}

\* C13: at most one of the patterns of the four endpoints matches the path
\* of a request, whatever the base uri, so that the endpoint _get_handler
\* selects when no custom rule matches is the one whose pattern matches, in
\* whatever order the patterns are tried.
C13_OnePatternAtMost ==
    \A r \in Requests : requests[r].pc # "none" =>
        LET matching == MatchingEndpoints(requests[r].path)
        IN  /\ Cardinality(matching) <= 1
            /\ requests[r].endpoint # "custom" =>
                   matching = {requests[r].endpoint} \ {"none"}

\* C13 witness: a path that ends with "relationships/" is the path of a
\* related endpoint, the relationship being called relationships.
C13_Witness ==
    \E r \in Requests :
        /\ requests[r].pc # "none"
        /\ Len(requests[r].path) = 6
        /\ requests[r].path[5] = "relationships"
        /\ requests[r].path[6] = ""
        /\ requests[r].endpoint = "related"
        /\ requests[r].japi_uri_arguments["relname"] = "relationships"

-----------------------------------------------------------------------------
(* Claims about include paths. *)

\* Every hop of the path can be taken, whatever the remote type: the
\* includer has the first relationship, and when its remote types are known,
\* each of them has an includer on which the rest of the path exists.
RECURSIVE EveryHop(_, _)
EveryHop(includer, path) ==
    \/ path = <<>>
    \/ LET relationship == DictGet(_relationships[includer.id], Head(path))
       IN  /\ relationship # None
           /\ relationship.remote_types # None =>
                  \A t \in {relationship.remote_types.items[n] :
                                n \in 1..Len(relationship.remote_types.items)} :
                      LET found == get_includer_result(t, ARG_DEFAULT)
                      IN  /\ found.kind = "return"
                          /\ EveryHop(found.value, Tail(path))

\* The relationships, the one called name taken from an includer.
Without(rels, id, name) ==
    [rels EXCEPT ![id] = [k \in DOMAIN rels[id] \ {name} |-> rels[id][k]]]

\* C7: path_exists returns True exactly when every hop can be taken on the
\* includer of every remote type (all of them, not one of them); and when it
\* returned True for a path whose first relationship has known remote types,
\* it returns False for that path once the next relationship of the path is
\* taken from the includer of any one of these remote types.
C7_AllRemoteTypes ==
    (ret.op = "path_exists" /\ ret.out.kind = "return") =>
        /\ ret.out.value = EveryHop(ret.includer, ret.path)
        /\ (ret.out.value /\ Len(ret.path) >= 2) =>
               LET first == _relationships[ret.includer.id][ret.path[1]]
               IN  first.remote_types # None =>
                       \A n \in 1..Len(first.remote_types.items) :
                           path_exists_in(
                               Without(_relationships,
                                       _includer[first.remote_types.items[n]].id,
                                       ret.path[2]),
                               ret.includer, ret.path) = Return(FALSE)

\* C7 witness: x leads to the types A and B, the includer of A has y, the
\* includer of B has not, and the path x.y does not exist.
C7_Witness ==
    /\ ret.op = "path_exists"
    /\ ret.includer.id = "A"
    /\ ret.path = <<"x", "y">>
    /\ "x" \in DOMAIN _relationships["A"]
    /\ _relationships["A"]["x"].remote_types = List(<<"A", "B">>)
    /\ "y" \in DOMAIN _relationships["A"]
    /\ "B" \in DOMAIN _includer
    /\ "y" \notin DOMAIN _relationships[_includer["B"].id]
    /\ ret.out = Return(FALSE)

\* C8: path_exists and paths_exist of a registered includer return a
\* boolean and never raise, whatever the relationships and the paths.
C8_NeverRaises ==
    (/\ ret.op \in {"path_exists", "paths_exist"}
     /\ ret.includer \in includer_api) =>
        (ret.out.kind = "return" /\ ret.out.value \in BOOLEAN)

-----------------------------------------------------------------------------
(* Claims about handle_request. *)

Finished(r) == requests[r].pc = "done"

Called(r, name) ==
    \E n \in 1..Len(requests[r].calls) : requests[r].calls[n] = name

\* C5: a domain error raised by prepare_request, by routing, by the handler
\* or while the builder is finished leaves handle_request unchanged in debug
\* mode, with no response made of it, and is answered with a response whose
\* status is not 2xx otherwise, nothing being raised; an error that is no
\* domain error leaves handle_request in either mode.
C5_DomainErrors ==
    \A r \in Requests :
        (Finished(r) /\ requests[r].raised # None) =>
            LET err == requests[r].raised.exc
            IN  IF err \in DomainErrors
                THEN IF _debug
                     THEN /\ requests[r].out = Raise(err)
                          /\ ~Called(r, "error_to_response")
                     ELSE /\ requests[r].out.kind = "return"
                          /\ requests[r].out.value.kind = "Response"
                          /\ requests[r].out.value.status \notin 200..299
                ELSE requests[r].out = Raise(err)

\* C5 witness: not in debug mode, the handler raised a domain error and
\* handle_request returned the response made of it.
C5_Witness ==
    \E r \in Requests :
        /\ ~_debug
        /\ Finished(r)
        /\ requests[r].raised = [step |-> "invoke", exc |-> "Forbidden"]
        /\ requests[r].out = Return(Response(403))

\* Routing found no handler for the request: nothing matched its path, or a
\* pattern of the four endpoints did and the key is not in the table.
NoHandlerFor(r) ==
    /\ requests[r].pc # "none"
    /\ Called(r, "_get_handler")
    /\ \/ requests[r].endpoint = "none"
       \/ /\ requests[r].endpoint
                 \in {"collection", "resource", "relationship", "related"}
          /\ requests[r].spec \notin DOMAIN _handler

\* C6: when routing finds no handler, NotFound is raised by the routing step
\* (and leaves handle_request in debug mode, or is answered otherwise), and
\* neither handle() nor fetch_include() nor to_response() is called.
C6_NotFound ==
    \A r \in Requests : NoHandlerFor(r) =>
        /\ Finished(r)
        /\ requests[r].raised = [step |-> "route", exc |-> "NotFound"]
        /\ IF _debug THEN requests[r].out = Raise("NotFound")
           ELSE /\ requests[r].out.kind = "return"
                /\ Called(r, "error_to_response")
        /\ ~Called(r, "handle")
        /\ ~Called(r, "fetch_include")
        /\ ~Called(r, "to_response")

\* C6 witness: a handler is in the table for the collection, the request is
\* for a resource; it ended with NotFound.
C6_Witness ==
    \E r \in Requests :
        /\ NoHandlerFor(r)
        /\ requests[r].endpoint = "resource"
        /\ DOMAIN _handler = {<<"widgets", "collection">>}
        /\ requests[r].raised = [step |-> "route", exc |-> "NotFound"]

-----------------------------------------------------------------------------
(* Claims about identifiers. *)

\* C11: ensure_identifier_object and ensure_identifier, given None, return
\* None without looking anything up in the registry and without raising,
\* whatever is registered.
C11_NonePassesThrough ==
    (ret.op \in {"ensure_identifier_object", "ensure_identifier"}
        /\ ret.obj = None) =>
        (ret.out = Return(None) /\ ret.lookups = 0)

-----------------------------------------------------------------------------
(* Claims about fetch_path. *)

\* fetch_path was called with a path whose first name is a to-one
\* relationship of the includer, on the attribute that holds a resource or
\* None.
ToOneFetched ==
    /\ ret.op = "fetch_path"
    /\ ret.path # <<>>
    /\ ret.path[1] \in DOMAIN _relationships[ret.includer.id]
    /\ _relationships[ret.includer.id][ret.path[1]].kind = "ToOneRelationship"
    /\ _relationships[ret.includer.id][ret.path[1]].mapped_key = "x"

\* What the accessor gives for the resources of the call.
AccessorResults ==
    {getattr(ret.resources[n], "x") : n \in 1..Len(ret.resources)}

\* C12: for a to-one relationship fetch_path returns the set of the accessor
\* results that are not None, whatever follows the first name of the path;
\* None is never in it, and it is empty when every result is None or no
\* resource was given.
C12_ToOneWithoutNone ==
    ToOneFetched =>
        /\ ret.out.kind = "return"
        /\ ret.out.value = {v \in AccessorResults : v # None}
        /\ None \notin ret.out.value
        /\ AccessorResults \subseteq {None} => ret.out.value = {}

\* C12 witness: of two resources one has a relative and one has none; the
\* relative alone is returned.
C12_Witness ==
    /\ ToOneFetched
    /\ ret.resources = <<"o1", "o3">>
    /\ ret.out = Return({Resource("o2")})

-----------------------------------------------------------------------------
(* Claims about the order of the steps of handle_request. *)

\* The number of calls of name made for the request.
Count(r, name) ==
    Cardinality({n \in 1..Len(requests[r].calls) : requests[r].calls[n] = name})

\* The place of the first call of name among the calls made for the request.
Index(r, name) ==
    CHOOSE n \in 1..Len(requests[r].calls) :
        /\ requests[r].calls[n] = name
        /\ \A m \in 1..(n - 1) : requests[r].calls[m] # name

\* handle() returned a response builder.
BuilderReturned(r) ==
    /\ requests[r].handled # None
    /\ requests[r].handled.kind = "return"
    /\ requests[r].handled.value.kind = "ResponseBuilder"

\* C14: the request is bound before anything is called for it; handle() is
\* called only after prepare_request and after routing found a handler;
\* fetch_include() and to_response() are called only for a builder that
\* handle() returned, fetch_include() once and before to_response() when the
\* builder can include and not at all when it cannot; a response returned
\* by handle() is what handle_request returns, neither of the two being
\* called.
C14_StepOrder ==
    \A r \in Requests :
        /\ (requests[r].pc # "none" /\ requests[r].calls # <<>>) =>
               requests[r].api = ThisAPI
        /\ (requests[r].pc # "none" /\ Called(r, "handle")) =>
               /\ Called(r, "prepare_request")
               /\ Called(r, "_get_handler")
               /\ Index(r, "prepare_request") < Index(r, "_get_handler")
               /\ Index(r, "_get_handler") < Index(r, "handle")
               /\ requests[r].handler # None
               /\ Count(r, "handle") = 1
        /\ (requests[r].pc # "none"
               /\ (Called(r, "fetch_include") \/ Called(r, "to_response"))) =>
               /\ BuilderReturned(r)
               /\ Index(r, "handle") < Len(requests[r].calls)
               /\ Called(r, "fetch_include") = requests[r].handled.value.include
               /\ Count(r, "fetch_include") <= 1
               /\ Count(r, "to_response") <= 1
               /\ (Called(r, "fetch_include") /\ Called(r, "to_response")) =>
                      Index(r, "fetch_include") < Index(r, "to_response")
        /\ (requests[r].pc # "none" /\ requests[r].handled # None
               /\ requests[r].handled.kind = "return"
               /\ requests[r].handled.value.kind = "Response") =>
               /\ Finished(r)
               /\ requests[r].out = requests[r].handled
               /\ ~Called(r, "fetch_include")
               /\ ~Called(r, "to_response")

\* C14 witness: the handler returned a builder that can include, and every
\* step was taken in turn up to the response.
C14_Witness ==
    \E r \in Requests :
        /\ Finished(r)
        /\ requests[r].handled = Return(ResponseBuilder(TRUE))
        /\ requests[r].calls = <<"prepare_request", "_get_handler", "handle",
                                 "fetch_include", "to_response">>
        /\ requests[r].out = Return(Response(200))

-----------------------------------------------------------------------------
(* Claims about the binding of a request. *)

\* handle_request has begun for the request.
Begun(r) == requests[r].pc \notin {"none", "start"}

\* C15: the first step of handle_request, for a request bound to another
\* API, ends the call with AssertionError, nothing being called and no
\* response being made of it, in debug mode or not; for any other request it
\* binds the request to this API, and the request stays bound to it up to
\* the end of the call, an error response included.
C15_BindAPI ==
    /\ [][\A r \in Requests :
              (requests[r].pc = "start" /\ requests'[r] # requests[r]) =>
                  IF requests[r].api = OtherAPI
                  THEN requests'[r] =
                           [requests[r] EXCEPT !.pc = "done",
                                               !.out = Raise("AssertionError")]
                  ELSE /\ requests'[r].api = ThisAPI
                       /\ requests'[r].pc = "prepare"]_vars
    /\ [][\A r \in Requests :
              Begun(r) => /\ Begun(r)'
                          /\ requests'[r].api = requests[r].api]_vars
    /\ [](\A r \in Requests :
              (Begun(r) /\ requests[r].api = OtherAPI) =>
                  /\ Finished(r)
                  /\ requests[r].out = Raise("AssertionError")
                  /\ requests[r].calls = <<>>
                  /\ requests[r].resp = None)

\* C15 witness: not in debug mode, a request bound to another API ended
\* with AssertionError.
C15_Witness ==
    \E r \in Requests :
        /\ ~_debug
        /\ Finished(r)
        /\ requests[r].api = OtherAPI
        /\ requests[r].out = Raise("AssertionError")

-----------------------------------------------------------------------------
(* Claims about concurrent dispatch. *)

\* The tables the requests share.
shared_tables ==
    <<_encoder, _resource_class_to_encoder, _includer,
      _resource_class_to_includer, _handler, _routes>>

\* What _get_handler gives for the path when the request is handled alone.
Alone(path) == get_handler_result(path, <<>>)

\* C16: once requests are being handled, no step of any of them changes the
\* four registry maps, the handler table or the routes, and a step changes
\* one request only; every request that has been routed has the handler and
\* the arguments it has when it is handled alone.
C16_Interleaving ==
    /\ [][~Setup =>
             /\ shared_tables' = shared_tables
             /\ \A r1, r2 \in DOMAIN requests :
                    r1 # r2 => \/ requests'[r1] = requests[r1]
                               \/ requests'[r2] = requests[r2]]_vars
    /\ [](\A r \in DOMAIN requests :
              (requests[r].pc # "none" /\ Called(r, "_get_handler")) =>
                  /\ requests[r].handler = Alone(requests[r].path).handler
                  /\ requests[r].japi_uri_arguments =
                         Alone(requests[r].path).arguments)

\* C16 witness: two requests for different paths are both being handled,
\* one routed by the url rule and about to be handled while the builder of
\* the other, routed to the collection, is being finished.
C16_Witness ==
    /\ requests["r1"].pc = "invoke"
    /\ requests["r2"].pc = "fetch_include"
    /\ requests["r1"].path # requests["r2"].path
    /\ requests["r1"].handler # None
    /\ requests["r1"].endpoint = "custom"
    /\ requests["r2"].endpoint = "collection"
    /\ "pk" \in DOMAIN requests["r1"].japi_uri_arguments
    /\ "pk" \notin DOMAIN requests["r2"].japi_uri_arguments

-----------------------------------------------------------------------------
(* Claims about the termination of path_exists. *)

\* C17: every call of path_exists ends, whatever the relationships, cycles
\* among them included: each call made by a call has a path one name
\* shorter, so that no more calls are made inside the first than its path
\* has names; and the call ends with the result of path_exists.
C17_Terminates ==
    /\ [](\A k \in 1..Len(frames) :
              Len(frames[k].path) = Len(frames[1].path) - (k - 1))
    /\ [](Len(frames) <= MaxPath + 1)
    /\ [](ret.op = "path_exists" =>
              ret.out = path_exists_result(ret.includer, ret.path))
    /\ (frames # <<>>) ~> (frames = <<>>)

\* C17 witness: the relationship x of the includer of A leads back to A, and
\* the call for the path x.x has reached the includer of A a third time.
C17_Witness ==
    /\ Len(frames) = 3
    /\ frames[1].includer.id = "A"
    /\ frames[2].includer.id = "A"
    /\ frames[3].includer.id = "A"
    /\ frames[1].path = <<"x", "x">>
    /\ frames[3].path = <<>>

-----------------------------------------------------------------------------
(* Claims about the debug property. *)

\* C18: an assignment to debug ends without an error, and debug then reads
\* as bool of the value assigned.
C18_DebugAssigned ==
    ret.op = "debug_setter" =>
        /\ ret.out = Return(None)
        /\ debug_getter = Bool(ret.debug)

=============================================================================
